---- MODULE Spec2Model ----
(***************************************************************************)
(* Model of assets/images/reshape_icon.py: add_margin() opens             *)
(* 'Logo_Rounded.png', computes a 20% margin, pastes the image onto a     *)
(* transparent RGBA canvas using the image itself as the mask, saves the  *)
(* canvas to 'Logo_Rounded_with_margin.png' and prints one message.       *)
(* The PIL calls are modelled by what they do to the pixel grid: the      *)
(* paste blends every band (alpha included) of the canvas with the source *)
(* band, weighted by the mask value, with PIL's rounding division by 255. *)
(***************************************************************************)
EXTENDS Integers, Sequences, FiniteSets, TLC

\* ---------------------------------------------------------------- bounds
\* Largest width and height of an input image that Init enumerates.
MaxW == 10
MaxH == 5
\* Largest number of times the program is run on its own previous output.
MaxRuns == 2

VARIABLES
    inFile,      \* what the disk holds at 'Logo_Rounded.png'
    outFile,     \* what the disk holds at 'Logo_Rounded_with_margin.png'
    img,         \* local img (line 7)
    width, height,          \* line 10
    margin_w, margin_h,     \* lines 13-14
    new_width, new_height,  \* lines 17-18
    new_img,     \* local new_img (line 21), mutated by the paste (line 24)
    exc,         \* the exception raised in this run, NoException when none
    stdout,      \* what this run has printed
    pc,          \* the statement add_margin is about to execute
    runs         \* how many runs have been started

vars == <<inFile, outFile, img, width, height, margin_w, margin_h,
          new_width, new_height, new_img, exc, stdout, pc, runs>>

\* ---------------------------------------------------------------- images
InputName == "Logo_Rounded.png"

OutputName == "Logo_Rounded_with_margin.png"

NoImage == [mode |-> "none", w |-> 0, h |-> 0, px |-> <<>>]

Coords(w, h) == (0 .. w - 1) \X (0 .. h - 1)

\* Pixel values the enumerated input files are made of, per image mode.
PaletteRGBA ==
    { <<0, 0, 0, 0>>, <<255, 255, 255, 0>>, <<255, 0, 0, 255>>,
      <<0, 255, 0, 128>>, <<200, 100, 50, 1>>, <<9, 130, 255, 254>> }
PaletteRGB == { <<255, 0, 0>>, <<12, 130, 250>> }
PaletteL == { <<0>>, <<128>>, <<255>> }

Modes == {"RGBA", "RGB", "L"}

Palette(mode) ==
    CASE mode = "RGBA" -> PaletteRGBA
      [] mode = "RGB" -> PaletteRGB
      [] mode = "L" -> PaletteL

\* An image of the given mode and size whose pixels alternate between p1, p2.
GenImage(mode, w, h, p1, p2) ==
    [mode |-> mode, w |-> w, h |-> h,
     px |-> [p \in Coords(w, h) |-> IF (p[1] + p[2]) % 2 = 0 THEN p1 ELSE p2]]

InputImages ==
    UNION { { GenImage(mode, w, h, p1, p2) :
                w \in 1 .. MaxW, h \in 1 .. MaxH,
                p1 \in Palette(mode), p2 \in Palette(mode) } :
            mode \in Modes }

File(kind, image) == [kind |-> kind, img |-> image]

\* An exception: its type, and the file name its text carries ("" for none).
Exception(type, file) == [type |-> type, file |-> file]

NoException == Exception("none", "")

\* A printed line: 'Created new image with dimensions {w}x{h}' or
\* 'Error processing image: {cause}'.
Message(kind, w, h, cause) == [kind |-> kind, w |-> w, h |-> h, cause |-> cause]

\* ------------------------------------------------------- pure computations
\* Mutants of MarginOf: rounding to nearest, and a ratio of 0.02.
MarginOfRounded(n) == (n * 2 + 5) \div 10

MarginOfTwoPercent(n) == (n * 2) \div 100

\* int(n * 0.2): the double nearest 0.2 lies just above 1/5 and the product
\* is rounded to nearest, so for image sizes the truncation equals n div 5.
MarginOf(n) == (n * 2) \div 10

NewSize(n) == n + (2 * MarginOf(n))

\* Mutant of NewImage: a canvas of opaque black.
NewImageOpaque(w, h) ==
    [mode |-> "RGBA", w |-> w, h |-> h,
     px |-> [p \in Coords(w, h) |-> <<0, 0, 0, 255>>]]

\* Image.new('RGBA', (w, h), (0, 0, 0, 0))
NewImage(w, h) ==
    [mode |-> "RGBA", w |-> w, h |-> h,
     px |-> [p \in Coords(w, h) |-> <<0, 0, 0, 0>>]]

\* Mutant of Blend: the division by 255 truncates instead of rounding.
BlendTruncating(mask, out, in) ==
    LET tmp == out * (255 - mask) + in * mask
    IN  ((tmp \div 256) + tmp) \div 256

\* One band of the canvas after the paste: out*(255-mask) + in*mask over 255,
\* with PIL's rounding division ((t >> 8) + t) >> 8 of t = a + 128.
Blend(mask, out, in) ==
    LET tmp == out * (255 - mask) + in * mask + 128
    IN  ((tmp \div 256) + tmp) \div 256

\* Image.paste converts a source whose mode differs from the canvas's.
ConvertRGBA(mode, p) ==
    CASE mode = "RGBA" -> p
      [] mode = "RGB" -> <<p[1], p[2], p[3], 255>>
      [] mode = "L" -> <<p[1], p[1], p[1], 255>>

\* The modes the C paste accepts as a mask, and the mask value of a pixel.
MaskModeOk(mode) == mode \in {"RGBA", "L"}

MaskValue(mode, p) == IF mode = "RGBA" THEN p[4] ELSE p[1]

BlendPixel(out, in, mask) == [b \in 1 .. 4 |-> Blend(mask, out[b], in[b])]

\* new_img.paste(src, (ox, oy), msk) with src and msk of the same size.
PasteImage(dst, src, ox, oy, msk) ==
    [dst EXCEPT !.px =
        [p \in DOMAIN dst.px |->
            LET q == <<p[1] - ox, p[2] - oy>>
            IN  IF q \in DOMAIN src.px
                THEN BlendPixel(dst.px[p], ConvertRGBA(src.mode, src.px[q]),
                                MaskValue(msk.mode, msk.px[q]))
                ELSE dst.px[p]]]

\* ------------------------------------------------------------------ Init
Init ==
    /\ inFile \in { File("missing", NoImage), File("corrupt", NoImage) }
                  \cup { File("image", i) : i \in InputImages }
    /\ outFile \in { File("absent", NoImage), File("old", NoImage) }
    /\ img = NoImage
    /\ width = 0 /\ height = 0
    /\ margin_w = 0 /\ margin_h = 0
    /\ new_width = 0 /\ new_height = 0
    /\ new_img = NoImage
    /\ exc = NoException
    /\ stdout = <<>>
    /\ pc = "open"
    /\ runs = 1

\* --------------------------------------------------------------- actions
Raise(e) ==
    /\ exc' = e
    /\ pc' = "except"

\* line 7: Image.open succeeds on an identifiable image file.
OpenOk ==
    /\ pc = "open"
    /\ inFile.kind = "image"
    /\ img' = inFile.img
    /\ pc' = "size"
    /\ UNCHANGED <<inFile, outFile, width, height, margin_w, margin_h,
                   new_width, new_height, new_img, exc, stdout, runs>>

\* line 7: Image.open raises FileNotFoundError or UnidentifiedImageError.
OpenFails ==
    /\ pc = "open"
    /\ inFile.kind \in {"missing", "corrupt"}
    /\ Raise(IF inFile.kind = "missing"
             THEN Exception("FileNotFoundError", InputName)
             ELSE Exception("UnidentifiedImageError", InputName))
    /\ UNCHANGED <<inFile, outFile, img, width, height, margin_w, margin_h,
                   new_width, new_height, new_img, stdout, runs>>

\* lines 10-18: the sizes.
Measure ==
    /\ pc = "size"
    /\ width' = img.w
    /\ height' = img.h
    /\ margin_w' = MarginOf(img.w)
    /\ margin_h' = MarginOf(img.h)
    /\ new_width' = NewSize(img.w)
    /\ new_height' = NewSize(img.h)
    /\ pc' = "new"
    /\ UNCHANGED <<inFile, outFile, img, new_img, exc, stdout, runs>>

\* line 21: the transparent canvas.
NewCanvas ==
    /\ pc = "new"
    /\ new_img' = NewImage(new_width, new_height)
    /\ pc' = "paste"
    /\ UNCHANGED <<inFile, outFile, img, width, height, margin_w, margin_h,
                   new_width, new_height, exc, stdout, runs>>

\* line 21: the allocation fails.
NewCanvasFails ==
    /\ pc = "new"
    /\ Raise(Exception("MemoryError", ""))
    /\ UNCHANGED <<inFile, outFile, img, width, height, margin_w, margin_h,
                   new_width, new_height, new_img, stdout, runs>>

\* Mutant of Paste: the source is converted to RGBA in place before it is pasted.
PasteConvertingSource ==
    /\ pc = "paste"
    /\ MaskModeOk(img.mode)
    /\ img' = [img EXCEPT !.mode = "RGBA",
                          !.px = [q \in DOMAIN img.px |->
                                    ConvertRGBA(img.mode, img.px[q])]]
    /\ new_img' = PasteImage(new_img, img, margin_w, margin_h, img)
    /\ pc' = "save"
    /\ UNCHANGED <<inFile, outFile, width, height, margin_w, margin_h,
                   new_width, new_height, exc, stdout, runs>>

\* line 24: new_img.paste(img, (margin_w, margin_h), img)
Paste ==
    /\ pc = "paste"
    /\ MaskModeOk(img.mode)
    /\ new_img' = PasteImage(new_img, img, margin_w, margin_h, img)
    /\ pc' = "save"
    /\ UNCHANGED <<inFile, outFile, img, width, height, margin_w, margin_h,
                   new_width, new_height, exc, stdout, runs>>

\* line 24: the C paste rejects a mask that has no alpha or grey band.
PasteBadMask ==
    /\ pc = "paste"
    /\ ~MaskModeOk(img.mode)
    /\ Raise(Exception("ValueError: bad transparency mask", ""))
    /\ UNCHANGED <<inFile, outFile, img, width, height, margin_w, margin_h,
                   new_width, new_height, new_img, stdout, runs>>

\* line 24: the pixel data, read lazily by the paste, cannot be decoded.
PasteLoadFails ==
    /\ pc = "paste"
    /\ Raise(Exception("OSError: image file is truncated", ""))
    /\ UNCHANGED <<inFile, outFile, img, width, height, margin_w, margin_h,
                   new_width, new_height, new_img, stdout, runs>>

\* line 27: the canvas is encoded to the output path, replacing what was there.
SaveOk ==
    /\ pc = "save"
    /\ outFile' = File("image", new_img)
    /\ pc' = "print"
    /\ UNCHANGED <<inFile, img, width, height, margin_w, margin_h,
                   new_width, new_height, new_img, exc, stdout, runs>>

\* line 27: the output path cannot be opened for writing.
SaveDenied ==
    /\ pc = "save"
    /\ Raise(Exception("PermissionError", OutputName))
    /\ UNCHANGED <<inFile, outFile, img, width, height, margin_w, margin_h,
                   new_width, new_height, new_img, stdout, runs>>

\* line 27: the output path is opened (truncated) and the encoder then fails.
\* PIL writes in place; releases that clean up remove only a file that the
\* save itself created, so a file that existed before is left half-written.
SavePartial ==
    /\ pc = "save"
    /\ \E removed \in BOOLEAN :
          outFile' = IF removed /\ outFile.kind = "absent"
                     THEN File("absent", NoImage)
                     ELSE File("partial", NoImage)
    /\ Raise(Exception("OSError: No space left on device", ""))
    /\ UNCHANGED <<inFile, img, width, height, margin_w, margin_h,
                   new_width, new_height, new_img, stdout, runs>>

\* line 29
PrintCreated ==
    /\ pc = "print"
    /\ stdout' = Append(stdout, Message("created", new_width, new_height, NoException))
    /\ pc' = "done"
    /\ UNCHANGED <<inFile, outFile, img, width, height, margin_w, margin_h,
                   new_width, new_height, new_img, exc, runs>>

\* Mutants of HandleException: the message leaves the cause out; the handler
\* starts the function again.
HandleExceptionSilent ==
    /\ pc = "except"
    /\ stdout' = Append(stdout, Message("error", 0, 0, NoException))
    /\ pc' = "done"
    /\ UNCHANGED <<inFile, outFile, img, width, height, margin_w, margin_h,
                   new_width, new_height, new_img, exc, runs>>

HandleExceptionRetry ==
    /\ pc = "except"
    /\ pc' = "open"
    /\ UNCHANGED <<inFile, outFile, img, width, height, margin_w, margin_h,
                   new_width, new_height, new_img, exc, stdout, runs>>

\* lines 31-32: the one handler of the function prints the cause and returns.
HandleException ==
    /\ pc = "except"
    /\ stdout' = Append(stdout, Message("error", 0, 0, exc))
    /\ pc' = "done"
    /\ UNCHANGED <<inFile, outFile, img, width, height, margin_w, margin_h,
                   new_width, new_height, new_img, exc, runs>>

\* lines 34-35: the script is started again after its output has been copied
\* over its input (both file names are fixed); a new process has new locals.
RunOnOutput ==
    /\ pc = "done"
    /\ outFile.kind = "image"
    /\ runs < MaxRuns
    /\ inFile' = outFile
    /\ img' = NoImage
    /\ width' = 0 /\ height' = 0
    /\ margin_w' = 0 /\ margin_h' = 0
    /\ new_width' = 0 /\ new_height' = 0
    /\ new_img' = NoImage
    /\ exc' = NoException
    /\ stdout' = <<>>
    /\ pc' = "open"
    /\ runs' = runs + 1
    /\ UNCHANGED outFile

\* One statement of add_margin.
Step ==
    \/ OpenOk
    \/ OpenFails
    \/ Measure
    \/ NewCanvas
    \/ NewCanvasFails
    \/ Paste
    \/ PasteBadMask
    \/ PasteLoadFails
    \/ SaveOk
    \/ SaveDenied
    \/ SavePartial
    \/ PrintCreated
    \/ HandleException

Next == Step \/ RunOnOutput

Spec == Init /\ [][Next]_vars

\* The interpreter runs the function to its end: a statement that can execute
\* does execute.
FairSpec == Spec /\ WF_vars(Step)

\* ---------------------------------------------------------------- claims
\* The run has ended and its last printed line is the success message.
Succeeded ==
    /\ pc = "done"
    /\ stdout # <<>>
    /\ stdout[Len(stdout)].kind = "created"

\* The run has ended and its last printed line is the failure message.
Failed ==
    /\ pc = "done"
    /\ stdout # <<>>
    /\ stdout[Len(stdout)].kind = "error"

\* floor(0.2 * n), stated without the code's arithmetic: the largest m with
\* 5 * m <= n.
FloorFifth(n) == CHOOSE m \in 0 .. n : 5 * m <= n /\ 5 * (m + 1) > n

\* The source image of the run and the image written by it.
Src == inFile.img
Out == outFile.img

\* Whether output position p lies in the rectangle the source is pasted to.
InRect(p) ==
    /\ p[1] >= FloorFifth(Src.w) /\ p[1] < FloorFifth(Src.w) + Src.w
    /\ p[2] >= FloorFifth(Src.h) /\ p[2] < FloorFifth(Src.h) + Src.h

\* The output position of source position q.
Shifted(q) == <<q[1] + FloorFifth(Src.w), q[2] + FloorFifth(Src.h)>>

\* C1: after a successful run the written image measures
\* (W + 2*floor(0.2*W), H + 2*floor(0.2*H)), the margin truncated (7 -> 9,
\* 10 -> 14), and the success message reports the written image's size.
C1_OutputDimensions ==
    Succeeded =>
        /\ outFile.kind = "image"
        /\ Out.w = Src.w + 2 * FloorFifth(Src.w)
        /\ Out.h = Src.h + 2 * FloorFifth(Src.h)
        /\ DOMAIN Out.px = Coords(Out.w, Out.h)
        /\ (Src.w = 7 => Out.w = 9) /\ (Src.h = 7 => Out.h = 9)
        /\ (Src.w = 10 => Out.w = 14) /\ (Src.h = 10 => Out.h = 14)
        /\ stdout[Len(stdout)].w = Out.w
        /\ stdout[Len(stdout)].h = Out.h

C1_Witness ==
    /\ Succeeded
    /\ Src.w = 7 /\ Src.h = 7
    /\ Out.w = 9 /\ Out.h = 9
    /\ stdout = <<Message("created", 9, 9, NoException)>>

\* C2: after a successful run every output pixel outside the rectangle
\* [margin_w, margin_w+W) x [margin_h, margin_h+H) is (0,0,0,0), whatever
\* the source pixels are.
C2_BorderTransparent ==
    Succeeded =>
        \A p \in DOMAIN Out.px : ~InRect(p) => Out.px[p] = <<0, 0, 0, 0>>

C2_Witness ==
    /\ Succeeded
    /\ Src.mode = "RGBA"
    /\ FloorFifth(Src.w) >= 1 /\ FloorFifth(Src.h) >= 1
    /\ \A q \in DOMAIN Src.px : Src.px[q][4] = 255 /\ Src.px[q][1] = 255
    /\ Out.px[<<0, 0>>] = <<0, 0, 0, 0>>
    /\ Out.px[<<Out.w - 1, Out.h - 1>>] = <<0, 0, 0, 0>>

\* C3: after a successful run on a source with an alpha band, a source pixel
\* of alpha 255 appears unchanged (R, G, B and alpha) at its position shifted
\* by the margins, and a source pixel of alpha 0 is fully transparent there.
C3_OpaqueAndClearPixels ==
    (Succeeded /\ Src.mode = "RGBA") =>
        \A q \in DOMAIN Src.px :
            /\ Src.px[q][4] = 255 => Out.px[Shifted(q)] = Src.px[q]
            /\ Src.px[q][4] = 0 => Out.px[Shifted(q)][4] = 0

C3_Witness ==
    /\ Succeeded
    /\ Src.mode = "RGBA"
    /\ Src.w = 10 /\ Src.h = 5
    /\ Src.px[<<0, 0>>] = <<255, 0, 0, 255>>
    /\ Src.px[<<1, 0>>] = <<255, 255, 255, 0>>
    /\ Out.px[<<2, 1>>] = <<255, 0, 0, 255>>
    /\ Out.px[<<3, 1>>][4] = 0

\* C4: after a successful run a source pixel whose alpha lies strictly
\* between 0 and 255 keeps that alpha at its shifted position (128 stays 128).
C4_PartialAlphaKept ==
    (Succeeded /\ Src.mode = "RGBA") =>
        \A q \in DOMAIN Src.px :
            (Src.px[q][4] > 0 /\ Src.px[q][4] < 255)
                => Out.px[Shifted(q)][4] = Src.px[q][4]

\* C5: when the input file does not exist the run reports a failure that
\* names the missing file, and no step of the run changes the output path.
C5_MissingInput ==
    /\ []((pc = "done" /\ inFile.kind = "missing") =>
            /\ Failed
            /\ Len(stdout) = 1
            /\ stdout[1].cause.type = "FileNotFoundError"
            /\ stdout[1].cause.file = InputName)
    /\ [][inFile.kind = "missing" => outFile' = outFile]_vars

C5_Witness ==
    /\ Failed
    /\ inFile.kind = "missing"
    /\ outFile.kind = "old"
    /\ stdout[1].cause = Exception("FileNotFoundError", InputName)

\* C6 as stated: every application, from every valid size, enlarges the image.
C6_AlwaysGrows ==
    Succeeded =>
        /\ Out.w >= Src.w /\ Out.h >= Src.h
        /\ (Out.w > Src.w \/ Out.h > Src.h)

\* C6 as amended: no application shrinks the image; an application enlarges
\* exactly the dimensions that measure at least 5 pixels and leaves a
\* dimension below 5 pixels as it is (its margin truncates to 0).
C6_GrowsFromFive ==
    Succeeded =>
        /\ Out.w >= Src.w /\ Out.h >= Src.h
        /\ (Src.w >= 5 <=> Out.w > Src.w)
        /\ (Src.h >= 5 <=> Out.h > Src.h)

C6_Witness ==
    /\ Succeeded
    /\ runs = 2
    /\ Src.w = 7 /\ Out.w = 9
    /\ Src.h = 4 /\ Out.h = 4

\* C7: after a run that ended in failure the output path holds no
\* half-written file.
C7_NoPartialOutput == Failed => outFile.kind # "partial"

\* C8: no statement of a run changes the input file, and once the source
\* image is loaded no statement (the paste included) changes it.
C8_InputUntouched ==
    [][pc # "done" =>
        /\ inFile' = inFile
        /\ (img # NoImage => img' = img)]_vars

C8_Witness ==
    /\ pc = "save"
    /\ img = inFile.img
    /\ img.mode = "L"
    /\ new_img # NewImage(new_width, new_height)

\* The position of a statement in the one pass through add_margin.
Rank(l) ==
    CASE l = "open" -> 0
      [] l = "size" -> 1
      [] l = "new" -> 2
      [] l = "paste" -> 3
      [] l = "save" -> 4
      [] l = "print" -> 5
      [] l = "except" -> 5
      [] l = "done" -> 6

\* C9: every run ends, having printed exactly one line and nothing before its
\* end; the success line is printed only when open, paste and save have all
\* completed and nothing was raised; the failure line embeds the cause; no
\* statement is executed a second time.
C9_OneReport ==
    /\ [](pc # "done" => <>(pc = "done"))
    /\ [](pc # "done" => stdout = <<>>)
    /\ [](pc = "done" => Len(stdout) = 1 /\ (Succeeded \/ Failed))
    /\ [](Succeeded =>
            /\ exc = NoException
            /\ img = inFile.img
            /\ new_img = PasteImage(NewImage(new_width, new_height), img,
                                    margin_w, margin_h, img)
            /\ outFile = File("image", new_img))
    /\ [](Failed => exc # NoException /\ stdout[1].cause = exc)
    /\ [][pc # "done" => Rank(pc') > Rank(pc)]_vars

C9_Witness ==
    /\ Failed
    /\ exc.type = "PermissionError"
    /\ new_img # NoImage
    /\ outFile.kind = "old"

\* C10: a source without an alpha band is made fully opaque RGBA before the
\* paste, so the run succeeds and the rectangle holds the source pixels,
\* unchanged and opaque.
C10_NoAlphaUpgraded ==
    (pc = "done" /\ inFile.kind = "image" /\ Src.mode \in {"RGB", "L"}) =>
        /\ Succeeded
        /\ \A q \in DOMAIN Src.px :
              Out.px[Shifted(q)] = ConvertRGBA(Src.mode, Src.px[q])
====
